---- MODULE Spec2Model ----
(***************************************************************************)
(* Model of the brute force feed-pair path search (src/src/brute_force.rs) *)
(* and of the cache cost model it scores paths with (src/src/main.rs).     *)
(*                                                                         *)
(* Costs are f32 in the source.  Every cost the cache model produces is    *)
(* one of 0, 1, 5, 30 and every accumulated cost is a small sum of them,   *)
(* all of which f32 represents exactly, so costs are modelled as naturals. *)
(***************************************************************************)
EXTENDS Integers, Sequences, FiniteSets, TLC

VARIABLES
    pc,               \* position in search_best_path
    debug_assertions, \* build profile: are debug_assert!s compiled in?
    num_feeds, entry_size, max_radius,   \* arguments of search_best_path
    initial_bound,    \* value of the best_cost argument at the call
    best_cost,        \* the `mut best_cost` local
    cache_model,      \* CacheModel built at entry (capacities)
    neighbors,        \* the precomputed neighbor table
    partial_paths,    \* PartialPaths.storage: priority -> Vec<PartialPath>
    best_path,        \* the best_path local
    partial_path,     \* the node the latest loop iteration popped
    result,           \* returned Option<(Cost, Path)>
    entries,          \* standalone CacheModel.entries (main.rs)
    history,          \* every entry passed to the standalone simulate_access
    last_cost,        \* cost returned by the latest of these calls
    prev_entries,     \* CacheModel.entries before that call
    curr_point,       \* the point the closure `neighborhood` was called for
    next_steps,       \* the steps that call yielded, in iteration order
    expanded,         \* history: the paths popped and not dropped, so far
    pushed_nodes,     \* frontier on its own: every node pushed, in order
    popped_nodes      \* frontier on its own: every node pop returned, in order

searchVars == <<pc, debug_assertions, num_feeds, max_radius, initial_bound,
                best_cost, neighbors, partial_paths, best_path, partial_path,
                result>>
cacheVars == <<entries, history, last_cost, prev_entries>>
probeVars == <<curr_point, next_steps>>
frontierVars == <<pushed_nodes, popped_nodes>>
vars == <<searchVars, entry_size, cache_model, cacheVars, probeVars, expanded,
          frontierVars>>

(***************************************************************************)
(* Bounds of the model                                                     *)
(***************************************************************************)
MaxBound == 4          \* small caller-supplied cost bounds are -1..MaxBound
MaxRadius == 3         \* max_radius is drawn from 0..MaxRadius
NumCacheFeeds == 4     \* standalone cache model: entries are 0..NumCacheFeeds-1
MaxAccesses == 6       \* standalone cache model: number of simulated accesses
MaxFeeds == 4          \* neighbor table on its own: num_feeds is 2..MaxFeeds
MaxPushes == 3         \* frontier on its own: number of nodes pushed
MaxPathLen == 2        \* frontier on its own: length of the paths pushed

\* The values of num_feeds explored by the search specification.
FeedCounts == {1, 2, 3}
\* Feeds touched by the standalone cache model.
CacheFeeds == 0..(NumCacheFeeds - 1)
\* "A very large value" for an unconstrained search (1e9 in the scenario).
Unconstrained == 1000000000
BoundChoices == (-1..MaxBound) \cup {Unconstrained}
\* Entry sizes (bytes); 0 is the invalid one.  They give the capacities
\* (l1,l2,l3) = (3,63,4095), (2,32,2048), (1,31,2047), (0,1,127), (0,0,1),
\* (0,0,0).
EntrySizes == {0, 8193, 16383, 16385, 262145, 16777217, 33554433}
\* The searches explored.  Every tiebreak sequence of a search is followed,
\* which with three feeds is tractable only when all costs are zero
\* (l1_entries >= 3) or when the bound is the smallest one.
Explored(n, size, r, bound) ==
    \/ n < 3
    \/ size = 8193 /\ bound \in {1, Unconstrained}
    \/ size \in {16383, 16385} /\ r <= 1 /\ bound <= 2
    \/ size = 16383 /\ r <= 1 /\ bound = Unconstrained
    \/ size > 16385 /\ bound <= 1

\* The searches whose expansions are recorded: the record tells apart
\* states that differ by their past alone, so fewer searches are followed.
Traced(n, size, r, bound) ==
    \/ n < 3
    \/ r <= 1 /\ bound <= 1
    \/ size = 16385 /\ r <= 1 /\ bound <= 2

(***************************************************************************)
(* Program constants                                                       *)
(***************************************************************************)
L1_CAPACITY == 32 * 1024
L1_MISS_COST == 2
L2_CAPACITY == 512 * 1024
L2_MISS_COST == 10
L3_CAPACITY == 32 * 1024 * 1024
L3_MISS_COST == 60
BRUTE_FORCE_DEBUG_LEVEL == 1

NoPath == [path |-> <<>>, cache_entries |-> <<>>, cost_so_far |-> 0]
NoModel == [l1_entries |-> 0, l2_entries |-> 0, l3_entries |-> 0]

(***************************************************************************)
(* Cache cost model (main.rs)                                              *)
(***************************************************************************)
\* CacheModel::new
CacheModel_new(size) ==
    [l1_entries |-> L1_CAPACITY \div size,
     l2_entries |-> L2_CAPACITY \div size,
     l3_entries |-> L3_CAPACITY \div size]

\* Mutant: the L1 capacity test is off by one
cost_model_off_by_one(model, age) ==
    IF age + 1 < model.l1_entries THEN 0
    ELSE IF age < model.l2_entries THEN 1
    ELSE IF age < model.l3_entries THEN L2_MISS_COST \div L1_MISS_COST
    ELSE L3_MISS_COST \div L1_MISS_COST

\* CacheModel::cost_model
cost_model(model, age) ==
    IF age < model.l1_entries THEN 0
    ELSE IF age < model.l2_entries THEN 1
    ELSE IF age < model.l3_entries THEN L2_MISS_COST \div L1_MISS_COST
    ELSE L3_MISS_COST \div L1_MISS_COST

\* Iterator::rposition: 1-based index of the last occurrence, 0 for None
rposition(s, e) ==
    IF \E i \in 1..Len(s) : s[i] = e
    THEN CHOOSE i \in 1..Len(s) : s[i] = e /\ \A j \in (i+1)..Len(s) : s[j] # e
    ELSE 0

\* Vec::remove
remove(s, i) == [j \in 1..(Len(s) - 1) |-> IF j < i THEN s[j] ELSE s[j + 1]]

\* Mutant: the entry found is not removed from its old position
simulate_access_keeps_old(model, ents, entry) ==
    LET entry_pos == rposition(ents, entry) IN
    IF entry_pos # 0
    THEN LET entry_age == Len(ents) - entry_pos
         IN [cost |-> cost_model(model, entry_age),
             entries |-> Append(ents, entry)]
    ELSE [cost |-> 0, entries |-> Append(ents, entry)]

\* Mutant: the age is counted from the head of the list, not from its tail
simulate_access_age_from_head(model, ents, entry) ==
    LET entry_pos == rposition(ents, entry) IN
    IF entry_pos # 0
    THEN LET entry_age == entry_pos - 1
         IN [cost |-> cost_model(model, entry_age),
             entries |-> Append(remove(ents, entry_pos), entry)]
    ELSE [cost |-> 0, entries |-> Append(ents, entry)]

\* CacheModel::simulate_access, as a function of the recency list
simulate_access(model, ents, entry) ==
    LET entry_pos == rposition(ents, entry) IN
    IF entry_pos # 0
    THEN LET entry_age == Len(ents) - entry_pos
         IN [cost |-> cost_model(model, entry_age),
             entries |-> Append(remove(ents, entry_pos), entry)]
    ELSE [cost |-> 0, entries |-> Append(ents, entry)]

(***************************************************************************)
(* Partial paths (brute_force.rs)                                          *)
(***************************************************************************)
\* The two accesses of a feed pair, in order, against a recency list:
\* next_step.iter().map(|&feed| simulate_access(..)).sum()
access_pair(model, ents, pair) ==
    LET first == simulate_access(model, ents, pair[1])
        second == simulate_access(model, first.entries, pair[2])
    IN [cost |-> first.cost + second.cost, entries |-> second.entries]

\* PartialPath::new.  Both simulate_access calls sit inside
\* debug_assert_eq!, whose operands are evaluated only when debug
\* assertions are compiled in: without them the recency list stays empty.
PartialPath_new(debug, model, start) ==
    [path |-> <<start>>,
     cache_entries |-> IF debug THEN access_pair(model, <<>>, start).entries
                       ELSE <<>>,
     cost_so_far |-> 0]

\* The debug_assert_eq!(.., 0.0) of PartialPath::new, for both feeds
PartialPath_new_asserts(model, start) ==
    LET first == simulate_access(model, <<>>, start[1])
        second == simulate_access(model, first.entries, start[2])
    IN first.cost = 0 /\ second.cost = 0

\* PartialPath::last_step
last_step(p) == p.path[Len(p.path)]

\* Mutant: only the last step is compared
contains_last_only(p, pair) == p.path[Len(p.path)] = pair

\* PartialPath::contains
contains(p, pair) == \E i \in 1..Len(p.path) : p.path[i] = pair

\* Mutant: the cost of the step is not added to the cost so far
evaluate_next_step_step_cost(p, model, next_step) ==
    LET acc == access_pair(model, p.cache_entries, next_step)
    IN [cost |-> acc.cost, entries |-> acc.entries]

\* PartialPath::evaluate_next_step
evaluate_next_step(p, model, next_step) ==
    LET acc == access_pair(model, p.cache_entries, next_step)
    IN [cost |-> p.cost_so_far + acc.cost, entries |-> acc.entries]

\* PartialPath::commit_next_step
commit_next_step(p, next_step, next_cost, next_entries) ==
    [path |-> Append(p.path, next_step),
     cache_entries |-> next_entries,
     cost_so_far |-> next_cost]

\* PartialPath::finish_path
finish_path(p, final_step) == Append(p.path, final_step)

(***************************************************************************)
(* Priority frontier (brute_force.rs)                                      *)
(***************************************************************************)
\* 1.3f32 is 10905190 * 2^-23.  The f32 product 1.3 * len is the exact
\* product rounded to 24 significant bits, ties to even; the result is
\* given in units of 2^-23.
RECURSIVE shift_for(_, _)
shift_for(p, s) == IF p < 16777216 * (2 ^ s) THEN s ELSE shift_for(p, s + 1)

f32_mul_1_3(len) ==
    LET p == 10905190 * len
        s == shift_for(p, 0)
        unit == 2 ^ s
        q == p \div unit
        r == p % unit
        up == 2 * r > unit \/ (2 * r = unit /\ q % 2 = 1)
    IN (IF up THEN q + 1 ELSE q) * unit

\* PartialPaths::priorize: (1.3 * len as f32 - cost).round() as usize.
\* The cost is a whole number, so subtracting it leaves the fraction of the
\* product alone (the difference is exact while it is not negative);
\* f32::round rounds halves away from zero and the cast to usize saturates,
\* so that every negative value becomes 0.
priorize(p) ==
    LET prod == f32_mul_1_3(Len(p.path))
        whole == prod \div 8388608
        frac == prod % 8388608
    IN IF p.cost_so_far > whole THEN 0
       ELSE (whole - p.cost_so_far) + (IF frac >= 4194304 THEN 1 ELSE 0)

\* PartialPaths::push
push(storage, p) ==
    LET k == priorize(p)
    IN IF k \in DOMAIN storage
       THEN [storage EXCEPT ![k] = Append(@, p)]
       ELSE [j \in DOMAIN storage \cup {k} |-> IF j = k THEN <<p>> ELSE storage[j]]

\* storage.values_mut().rev().next(): the key of the last bucket
highest_priority(storage) ==
    CHOOSE k \in DOMAIN storage : \A j \in DOMAIN storage : j <= k

\* Mutant: the bucket is dropped with whatever paths it still holds
pop_storage_drops_bucket(storage, path_idx) ==
    LET hk == highest_priority(storage)
    IN [j \in DOMAIN storage \ {priorize(storage[hk][path_idx])} |-> storage[j]]

\* Mutant: the bucket is kept when its last path is popped
pop_storage_keeps_bucket(storage, path_idx) ==
    LET hk == highest_priority(storage)
    IN [storage EXCEPT ![hk] = remove(storage[hk], path_idx)]

\* PartialPaths::pop with the rng drawing path_idx (1-based here); the
\* emptied bucket is removed under the key priorize gives the popped path
pop_storage(storage, path_idx) ==
    LET hk == highest_priority(storage)
        path == storage[hk][path_idx]
        rest == remove(storage[hk], path_idx)
        kept == [storage EXCEPT ![hk] = rest]
    IN IF rest = <<>>
       THEN [j \in DOMAIN storage \ {priorize(path)} |-> kept[j]]
       ELSE kept

(***************************************************************************)
(* Neighbor table (brute_force.rs)                                         *)
(***************************************************************************)
Min(a, b) == IF a < b THEN a ELSE b
Max(a, b) == IF a > b THEN a ELSE b
\* usize::saturating_sub
saturating_sub(a, b) == IF a > b THEN a - b ELSE 0

\* A Rust range start..end (end excluded), and the values it iterates over
Range(a, b) == [start |-> a, end |-> b]
range_items(rg) ==
    [i \in 1..saturating_sub(rg.end, rg.start) |-> rg.start + i - 1]

linear_idx(n, curr_x, curr_y) == curr_y * n + curr_x

\* Mutant: the radius is forgotten along x
next_x_range_whole(n, r, curr_x) == Range(0, n)

next_x_range(n, r, curr_x) ==
    Range(saturating_sub(curr_x, r), Min(curr_x + r + 1, n))

\* Mutant: the range is not kept above the diagonal y = x
next_y_range_below_diagonal(n, r, curr_y, next_x) ==
    Range(saturating_sub(curr_y, r), Min(curr_y + r + 1, n))

\* Mutant: the end of the range is taken as included
next_y_range_short(n, r, curr_y, next_x) ==
    Range(Max(saturating_sub(curr_y, r), next_x), Min(curr_y + r, n))

next_y_range(n, r, curr_y, next_x) ==
    Range(Max(saturating_sub(curr_y, r), next_x), Min(curr_y + r + 1, n))

\* The table `neighbors`: for each linear index, the first neighbor x and,
\* for it and each following x, the range of neighbor y's; entries of
\* points outside the domain keep their initial (0, vec![]).
neighbor_table(n, r) ==
    [idx \in 0..(n * n - 1) |->
        LET curr_x == idx % n
            curr_y == idx \div n
        IN IF curr_x <= curr_y
           THEN LET xs == range_items(next_x_range(n, r, curr_x))
                IN [first_next_x |-> next_x_range(n, r, curr_x).start,
                    next_y_ranges |->
                        [k \in 1..Len(xs) |-> next_y_range(n, r, curr_y, xs[k])]]
           ELSE [first_next_x |-> 0, next_y_ranges |-> <<>>]]

\* The debug_assert!s of the construction of the table, for one point
neighbor_asserts_at(n, r, curr_x, curr_y) ==
    LET xr == next_x_range(n, r, curr_x)
        xs == range_items(xr)
    IN /\ xr.end < n
       /\ curr_x - xr.start < r
       /\ xr.end - curr_x <= r
       /\ \A k \in 1..Len(xs) :
            LET yr == next_y_range(n, r, curr_y, xs[k])
            IN /\ yr.end < n
               /\ curr_y - yr.start < r
               /\ yr.end - curr_y <= r
               /\ yr.start >= xs[k]

\* ... and for every point the construction loop visits
neighbor_asserts(n, r) ==
    \A curr_x \in 0..(n - 1) : \A curr_y \in curr_x..(n - 1) :
        neighbor_asserts_at(n, r, curr_x, curr_y)

\* The closure `neighborhood`: the neighbors of a point in iteration order
RECURSIVE flat_map(_, _, _)
flat_map(first_next_x, next_y_ranges, next_x_offset) ==
    IF next_x_offset >= Len(next_y_ranges) THEN <<>>
    ELSE LET ys == range_items(next_y_ranges[next_x_offset + 1])
         IN [i \in 1..Len(ys) |-> <<first_next_x + next_x_offset, ys[i]>>]
            \o flat_map(first_next_x, next_y_ranges, next_x_offset + 1)

neighborhood(table, n, curr_x, curr_y) ==
    LET e == table[linear_idx(n, curr_x, curr_y)]
    IN flat_map(e.first_next_x, e.next_y_ranges, 0)

(***************************************************************************)
(* search_best_path (brute_force.rs)                                       *)
(***************************************************************************)
path_length(n) == (n * (n + 1)) \div 2

\* The starting points in the order the seeding loops push them
\* Mutant: every point of the row up to the diagonal is a starting point
RECURSIVE seed_row_whole(_, _, _)
seed_row_whole(n, start_y, start_x) ==
    IF start_x > start_y THEN <<>>
    ELSE <<<<start_x, start_y>>>> \o seed_row_whole(n, start_y, start_x + 1)

RECURSIVE seed_row(_, _, _)
seed_row(n, start_y, start_x) ==
    IF start_x > Min(start_y, n - start_y - 1) THEN <<>>
    ELSE <<<<start_x, start_y>>>> \o seed_row(n, start_y, start_x + 1)

RECURSIVE seed_points(_, _)
seed_points(n, start_y) ==
    IF start_y >= n THEN <<>>
    ELSE seed_row(n, start_y, 0) \o seed_points(n, start_y + 1)

RECURSIVE push_all(_, _, _, _, _)
push_all(storage, debug, model, starts, i) ==
    IF i > Len(starts) THEN storage
    ELSE push_all(push(storage, PartialPath_new(debug, model, starts[i])),
                  debug, model, starts, i + 1)

EmptyStorage == [k \in {} |-> <<>>]
Pending == [state |-> "pending"]
None == [state |-> "none"]
Some(cost, path) == [state |-> "some", cost |-> cost, path |-> path]

\* Mutant: a cost equal to the cost to beat is let through
exceeds_goal_above_only(cost, best) == cost > best

\* The test that prunes a popped path or a candidate step
exceeds_goal(cost, best) ==
    cost > best \/ (BRUTE_FORCE_DEBUG_LEVEL < 2 /\ cost = best)

\* Mutant: the cost to beat is not checked
preconditions_without_cost(n, size, r, best) ==
    n > 1 /\ size > 0 /\ r >= 1

\* The condition of the assert! at entry
preconditions(n, size, r, best) ==
    n > 1 /\ size > 0 /\ r >= 1 /\ best > 0

\* assert! at entry, cache model set-up and its debug_assert!
Enter ==
    /\ pc = "entry"
    /\ IF ~preconditions(num_feeds, entry_size, max_radius, best_cost)
       THEN pc' = "aborted" /\ UNCHANGED <<cache_model, best_cost>>
       ELSE /\ cache_model' = CacheModel_new(entry_size)
            /\ IF debug_assertions /\ ~(cache_model'.l1_entries >= 3)
               THEN pc' = "aborted" /\ UNCHANGED best_cost
               ELSE /\ pc' = "seed"
                    /\ best_cost' = IF BRUTE_FORCE_DEBUG_LEVEL >= 2
                                    THEN best_cost - 1 ELSE best_cost
    /\ UNCHANGED <<debug_assertions, num_feeds, entry_size, max_radius,
                   initial_bound, neighbors, partial_paths, best_path,
                   partial_path, result, cacheVars,
                   probeVars, expanded, frontierVars>>

\* The seeding loops
Seed ==
    /\ pc = "seed"
    /\ LET starts == seed_points(num_feeds, 0)
       IN IF debug_assertions
             /\ \E i \in 1..Len(starts) :
                    ~PartialPath_new_asserts(cache_model, starts[i])
          THEN pc' = "aborted" /\ UNCHANGED partial_paths
          ELSE /\ partial_paths' = push_all(EmptyStorage, debug_assertions,
                                            cache_model, starts, 1)
               /\ pc' = "neighbors"
    /\ UNCHANGED <<debug_assertions, num_feeds, entry_size, max_radius,
                   initial_bound, best_cost, cache_model, neighbors, best_path,
                   partial_path, result, cacheVars,
                   probeVars, expanded, frontierVars>>

\* Construction of the neighbor table, with its debug_assert!s
BuildNeighbors ==
    /\ pc = "neighbors"
    /\ IF debug_assertions /\ ~neighbor_asserts(num_feeds, max_radius)
       THEN pc' = "aborted" /\ UNCHANGED neighbors
       ELSE /\ neighbors' = neighbor_table(num_feeds, max_radius)
            /\ pc' = "loop"
    /\ UNCHANGED <<debug_assertions, num_feeds, entry_size, max_radius,
                   initial_bound, best_cost, cache_model, partial_paths,
                   best_path, partial_path, result, cacheVars,
                   probeVars, expanded, frontierVars>>

\* Mutant: a better complete path is recorded but the goal is not tightened
try_next_step_keeps_goal(st, p, model, n, next_step) ==
    LET next == evaluate_next_step(p, model, next_step)
        next_path_len == Len(p.path) + 1
    IN IF contains(p, next_step) THEN st
       ELSE IF exceeds_goal(next.cost, st.best_cost) THEN st
       ELSE IF next_path_len = path_length(n)
       THEN IF next.cost < st.best_cost
            THEN [st EXCEPT !.best_path = finish_path(p, next_step)]
            ELSE st
       ELSE [st EXCEPT !.storage =
                push(@, commit_next_step(p, next_step, next.cost, next.entries))]

\* Mutant: the path is recorded without its final step
try_next_step_unfinished_path(st, p, model, n, next_step) ==
    LET next == evaluate_next_step(p, model, next_step)
        next_path_len == Len(p.path) + 1
    IN IF contains(p, next_step) THEN st
       ELSE IF exceeds_goal(next.cost, st.best_cost) THEN st
       ELSE IF next_path_len = path_length(n)
       THEN IF next.cost < st.best_cost
            THEN [st EXCEPT !.best_path = p.path,
                            !.best_cost = next.cost]
            ELSE st
       ELSE [st EXCEPT !.storage =
                push(@, commit_next_step(p, next_step, next.cost, next.entries))]

\* One iteration of `for next_step in neighborhood(curr_x, curr_y)`: st holds
\* the locals best_cost and best_path and the frontier storage
try_next_step(st, p, model, n, next_step) ==
    LET next == evaluate_next_step(p, model, next_step)
        next_path_len == Len(p.path) + 1
    IN IF contains(p, next_step) THEN st
       ELSE IF exceeds_goal(next.cost, st.best_cost) THEN st
       ELSE IF next_path_len = path_length(n)
       THEN IF next.cost < st.best_cost
            THEN [st EXCEPT !.best_path = finish_path(p, next_step),
                            !.best_cost = next.cost]
            ELSE st
       ELSE [st EXCEPT !.storage =
                push(@, commit_next_step(p, next_step, next.cost, next.entries))]

\* Mutant: each candidate is evaluated on the node itself, not on a clone
\* of its recency list, so the siblings that follow see the accesses
RECURSIVE expand_shared_cache(_, _, _, _, _, _)
expand_shared_cache(st, p, model, n, steps, i) ==
    IF i > Len(steps) THEN st
    ELSE expand_shared_cache(
             try_next_step(st, p, model, n, steps[i]),
             [p EXCEPT !.cache_entries =
                 evaluate_next_step(p, model, steps[i]).entries],
             model, n, steps, i + 1)

\* The whole for loop over the neighborhood of the last step of p
RECURSIVE expand(_, _, _, _, _, _)
expand(st, p, model, n, steps, i) ==
    IF i > Len(steps) THEN st
    ELSE expand(try_next_step(st, p, model, n, steps[i]), p, model, n, steps, i + 1)

\* One iteration of `while let Some(partial_path) = partial_paths.pop(&mut
\* rng)` with the rng drawing path_idx: the pop, the test that drops a path
\* which cannot beat best_cost any more, and the loop over the neighbors of
\* its last step
iteration(path_idx) ==
    LET popped == partial_paths[highest_priority(partial_paths)][path_idx]
        st == [best_cost |-> best_cost, best_path |-> best_path,
               storage |-> pop_storage(partial_paths, path_idx)]
        after ==
            IF exceeds_goal(popped.cost_so_far, best_cost) THEN st
            ELSE expand(st, popped, cache_model, num_feeds,
                        neighborhood(neighbors, num_feeds,
                                     last_step(popped)[1],
                                     last_step(popped)[2]), 1)
    IN /\ partial_path' = popped
       /\ partial_paths' = after.storage
       /\ best_cost' = after.best_cost
       /\ best_path' = after.best_path
       /\ UNCHANGED <<pc, debug_assertions, num_feeds, entry_size, max_radius,
                      initial_bound, cache_model, neighbors, result, cacheVars,
                      probeVars, frontierVars>>

Iterate ==
    /\ pc = "loop"
    /\ DOMAIN partial_paths # {}
    /\ \E path_idx \in 1..Len(partial_paths[highest_priority(partial_paths)]) :
         iteration(path_idx)
    /\ UNCHANGED expanded

\* The frontier is empty: return the optimal path, if any, and its cost
Return ==
    /\ pc = "loop"
    /\ DOMAIN partial_paths = {}
    /\ result' = IF best_path = <<>> THEN None ELSE Some(best_cost, best_path)
    /\ pc' = "done"
    /\ UNCHANGED <<debug_assertions, num_feeds, entry_size, max_radius,
                   initial_bound, best_cost, cache_model, neighbors,
                   partial_paths, best_path, partial_path, cacheVars,
                   probeVars, expanded, frontierVars>>

Init ==
    /\ pc = "entry"
    /\ debug_assertions \in BOOLEAN
    /\ num_feeds \in FeedCounts
    /\ entry_size \in EntrySizes
    /\ max_radius \in 0..MaxRadius
    /\ initial_bound \in BoundChoices
    /\ Explored(num_feeds, entry_size, max_radius, initial_bound)
    /\ best_cost = initial_bound
    /\ cache_model = NoModel
    /\ neighbors = <<>>
    /\ partial_paths = EmptyStorage
    /\ best_path = <<>>
    /\ partial_path = NoPath
    /\ result = Pending
    /\ entries = <<>>
    /\ history = <<>>
    /\ last_cost = 0
    /\ prev_entries = <<>>
    /\ curr_point = <<0, 0>>
    /\ next_steps = <<>>
    /\ expanded = {}
    /\ pushed_nodes = <<>>
    /\ popped_nodes = <<>>

Next == Enter \/ Seed \/ BuildNeighbors \/ Iterate \/ Return

Spec == Init /\ [][Next]_vars

(***************************************************************************)
(* The cache model on its own (main.rs): a CacheModel is built for an      *)
(* entry size and simulate_access is called on it for arbitrary entries.   *)
(***************************************************************************)
SimulateAccess(entry) ==
    /\ pc = "cache"
    /\ Len(history) < MaxAccesses
    /\ LET res == simulate_access(cache_model, entries, entry)
       IN /\ entries' = res.entries
          /\ last_cost' = res.cost
    /\ history' = Append(history, entry)
    /\ prev_entries' = entries
    /\ UNCHANGED <<searchVars, entry_size, cache_model, probeVars, expanded,
                   frontierVars>>

CacheInit ==
    /\ pc = "cache"
    /\ debug_assertions = FALSE
    /\ num_feeds = NumCacheFeeds
    /\ entry_size \in EntrySizes \ {0}
    /\ max_radius = 0
    /\ initial_bound = 0
    /\ best_cost = 0
    /\ cache_model = CacheModel_new(entry_size)
    /\ neighbors = <<>>
    /\ partial_paths = EmptyStorage
    /\ best_path = <<>>
    /\ partial_path = NoPath
    /\ result = Pending
    /\ entries = <<>>
    /\ history = <<>>
    /\ last_cost = 0
    /\ prev_entries = <<>>
    /\ curr_point = <<0, 0>>
    /\ next_steps = <<>>
    /\ expanded = {}
    /\ pushed_nodes = <<>>
    /\ popped_nodes = <<>>

CacheNext == \E entry \in CacheFeeds : SimulateAccess(entry)

CacheSpec == CacheInit /\ [][CacheNext]_vars

(***************************************************************************)
(* The scenario of main.rs with four feeds: an L1 of three entries, no     *)
(* limit on the step radius and no cost to beat.  The search space is too  *)
(* large to follow every tiebreak sequence, so this specification follows  *)
(* only those where the rng draws the last path of the bucket until a best *)
(* path is recorded and one of the last two afterwards: its behaviours are *)
(* behaviours of the program, but not all of them.                         *)
(***************************************************************************)
ScenarioFeeds == 4
ScenarioL1Entries == 3

IterateRecent ==
    /\ pc = "loop"
    /\ DOMAIN partial_paths # {}
    /\ LET len == Len(partial_paths[highest_priority(partial_paths)])
       IN \E path_idx \in {len, IF best_path = <<>> THEN len ELSE Max(1, len - 1)} :
            iteration(path_idx)
    /\ UNCHANGED expanded

ScenarioInit ==
    /\ pc = "entry"
    /\ debug_assertions \in BOOLEAN
    /\ num_feeds = ScenarioFeeds
    /\ entry_size = L1_CAPACITY \div ScenarioL1Entries
    /\ max_radius = ScenarioFeeds
    /\ initial_bound = Unconstrained
    /\ best_cost = initial_bound
    /\ cache_model = NoModel
    /\ neighbors = <<>>
    /\ partial_paths = EmptyStorage
    /\ best_path = <<>>
    /\ partial_path = NoPath
    /\ result = Pending
    /\ entries = <<>>
    /\ history = <<>>
    /\ last_cost = 0
    /\ prev_entries = <<>>
    /\ curr_point = <<0, 0>>
    /\ next_steps = <<>>
    /\ expanded = {}
    /\ pushed_nodes = <<>>
    /\ popped_nodes = <<>>

ScenarioNext == Enter \/ Seed \/ BuildNeighbors \/ IterateRecent \/ Return

ScenarioSpec == ScenarioInit /\ [][ScenarioNext]_vars

(***************************************************************************)
(* The search with a record of what it expanded: `expanded` collects the   *)
(* path of every popped node that was not dropped by the test on the cost  *)
(* to beat.                                                                *)
(***************************************************************************)
IterateTraced ==
    /\ pc = "loop"
    /\ DOMAIN partial_paths # {}
    /\ \E path_idx \in 1..Len(partial_paths[highest_priority(partial_paths)]) :
         iteration(path_idx)
    /\ expanded' = IF exceeds_goal(partial_path'.cost_so_far, best_cost)
                   THEN expanded
                   ELSE expanded \cup {partial_path'.path}

TracedInit == Init /\ Traced(num_feeds, entry_size, max_radius, initial_bound)

TracedNext == Enter \/ Seed \/ BuildNeighbors \/ IterateTraced \/ Return

TracedSpec == TracedInit /\ [][TracedNext]_vars

(***************************************************************************)
(* A search with three feeds and entries too large for the L1 cache, so    *)
(* that accesses cost 1, 5 or 30, and no cost to beat.  Only the behaviour *)
(* where the rng always draws the last path of the bucket is followed: it  *)
(* is a behaviour of the program, one among many.                          *)
(***************************************************************************)
IterateLast ==
    /\ pc = "loop"
    /\ DOMAIN partial_paths # {}
    /\ iteration(Len(partial_paths[highest_priority(partial_paths)]))
    /\ UNCHANGED expanded

StarvedInit ==
    /\ pc = "entry"
    /\ debug_assertions \in BOOLEAN
    /\ num_feeds = 3
    /\ entry_size \in {size \in EntrySizes : size > L1_CAPACITY}
    /\ max_radius \in 1..MaxRadius
    /\ initial_bound = Unconstrained
    /\ best_cost = initial_bound
    /\ cache_model = NoModel
    /\ neighbors = <<>>
    /\ partial_paths = EmptyStorage
    /\ best_path = <<>>
    /\ partial_path = NoPath
    /\ result = Pending
    /\ entries = <<>>
    /\ history = <<>>
    /\ last_cost = 0
    /\ prev_entries = <<>>
    /\ curr_point = <<0, 0>>
    /\ next_steps = <<>>
    /\ expanded = {}
    /\ pushed_nodes = <<>>
    /\ popped_nodes = <<>>

StarvedNext == Enter \/ Seed \/ BuildNeighbors \/ IterateLast \/ Return

StarvedSpec == StarvedInit /\ [][StarvedNext]_vars

(***************************************************************************)
(* The neighbor table on its own: search_best_path is entered, builds the  *)
(* table, and the closure `neighborhood` is then called for any point of   *)
(* the domain (the search calls it for the last step of the popped path).  *)
(***************************************************************************)
Neighborhood(curr_x, curr_y) ==
    /\ pc = "loop"
    /\ curr_point' = <<curr_x, curr_y>>
    /\ next_steps' = neighborhood(neighbors, num_feeds, curr_x, curr_y)
    /\ UNCHANGED <<searchVars, entry_size, cache_model, cacheVars, expanded,
                   frontierVars>>

NeighborInit ==
    /\ pc = "entry"
    /\ debug_assertions \in BOOLEAN
    /\ num_feeds \in 2..MaxFeeds
    /\ entry_size = L1_CAPACITY \div ScenarioL1Entries
    /\ max_radius \in 1..MaxRadius
    /\ initial_bound = Unconstrained
    /\ best_cost = initial_bound
    /\ cache_model = NoModel
    /\ neighbors = <<>>
    /\ partial_paths = EmptyStorage
    /\ best_path = <<>>
    /\ partial_path = NoPath
    /\ result = Pending
    /\ entries = <<>>
    /\ history = <<>>
    /\ last_cost = 0
    /\ prev_entries = <<>>
    /\ curr_point = <<0, 0>>
    /\ next_steps = <<>>
    /\ expanded = {}
    /\ pushed_nodes = <<>>
    /\ popped_nodes = <<>>

NeighborNext ==
    \/ Enter
    \/ Seed
    \/ BuildNeighbors
    \/ \E curr_x \in 0..(num_feeds - 1) : \E curr_y \in curr_x..(num_feeds - 1) :
            Neighborhood(curr_x, curr_y)

NeighborSpec == NeighborInit /\ [][NeighborNext]_vars

(***************************************************************************)
(* The frontier on its own: a PartialPaths collection is created, and      *)
(* partial paths of any length and cost are pushed onto it and popped from *)
(* it in any order.  Costs 1 and 3 exceed 1.3 times the length of the      *)
(* shortest paths, so some priorities fall on key 0.                       *)
(***************************************************************************)
FrontierCosts == {0, 1, 3}

\* The naive order of main.rs: feed1 in 0..num_feeds, feed2 in feed1..
RECURSIVE naive_from(_, _, _)
naive_from(n, feed1, feed2) ==
    IF feed1 >= n THEN <<>>
    ELSE IF feed2 >= n THEN naive_from(n, feed1 + 1, feed1 + 1)
    ELSE <<<<feed1, feed2>>>> \o naive_from(n, feed1, feed2 + 1)

Naive(n) == naive_from(n, 0, 0)

\* The paths pushed: the first steps of the naive order, at any cost
PushedPaths ==
    {[path |-> SubSeq(Naive(MaxFeeds), 1, len),
      cache_entries |-> <<>>,
      cost_so_far |-> cost] : len \in 1..MaxPathLen, cost \in FrontierCosts}

FrontierPush(path) ==
    /\ pc = "frontier"
    /\ Len(pushed_nodes) < MaxPushes
    /\ partial_paths' = push(partial_paths, path)
    /\ pushed_nodes' = Append(pushed_nodes, path)
    /\ UNCHANGED <<pc, debug_assertions, num_feeds, entry_size, max_radius,
                   initial_bound, best_cost, cache_model, neighbors, best_path,
                   partial_path, result, cacheVars, probeVars, expanded,
                   popped_nodes>>

\* PartialPaths::pop: None on an empty collection, otherwise one of the
\* paths of the last bucket, at the index the rng draws
FrontierPop ==
    /\ pc = "frontier"
    /\ IF DOMAIN partial_paths = {}
       THEN /\ partial_path' = NoPath
            /\ UNCHANGED <<partial_paths, popped_nodes>>
       ELSE \E path_idx \in 1..Len(partial_paths[highest_priority(partial_paths)]) :
              /\ partial_path' =
                    partial_paths[highest_priority(partial_paths)][path_idx]
              /\ partial_paths' = pop_storage(partial_paths, path_idx)
              /\ popped_nodes' = Append(popped_nodes, partial_path')
    /\ UNCHANGED <<pc, debug_assertions, num_feeds, entry_size, max_radius,
                   initial_bound, best_cost, cache_model, neighbors, best_path,
                   result, cacheVars, probeVars, expanded, pushed_nodes>>

FrontierInit ==
    /\ pc = "frontier"
    /\ debug_assertions \in BOOLEAN
    /\ num_feeds = MaxFeeds
    /\ entry_size = 0
    /\ max_radius = 0
    /\ initial_bound = 0
    /\ best_cost = 0
    /\ cache_model = NoModel
    /\ neighbors = <<>>
    /\ partial_paths = EmptyStorage
    /\ best_path = <<>>
    /\ partial_path = NoPath
    /\ result = Pending
    /\ entries = <<>>
    /\ history = <<>>
    /\ last_cost = 0
    /\ prev_entries = <<>>
    /\ curr_point = <<0, 0>>
    /\ next_steps = <<>>
    /\ expanded = {}
    /\ pushed_nodes = <<>>
    /\ popped_nodes = <<>>

FrontierNext == (\E path \in PushedPaths : FrontierPush(path)) \/ FrontierPop

FrontierSpec == FrontierInit /\ [][FrontierNext]_vars

(***************************************************************************)
(* Vocabulary of the properties                                            *)
(***************************************************************************)
ValidInputs ==
    num_feeds > 1 /\ entry_size > 0 /\ max_radius >= 1 /\ initial_bound > 0

Domain(n) == {q \in (0..(n - 1)) \X (0..(n - 1)) : q[1] <= q[2]}

Abs(a) == IF a < 0 THEN -a ELSE a
WithinRadius(a, b, r) == Abs(a[1] - b[1]) <= r /\ Abs(a[2] - b[2]) <= r
Elements(seq) == {seq[i] : i \in 1..Len(seq)}
MinOf(S) == CHOOSE m \in S : \A o \in S : m <= o

\* The nodes of the frontier
FrontierNodes ==
    UNION {Elements(partial_paths[k]) : k \in DOMAIN partial_paths}

\* How many times a node occurs in a sequence, and in the buckets of a storage
Occurrences(seq, node) == Cardinality({i \in 1..Len(seq) : seq[i] = node})

RECURSIVE Stored(_, _, _)
Stored(storage, keys, node) ==
    IF keys = {} THEN 0
    ELSE LET k == CHOOSE j \in keys : TRUE
         IN Occurrences(storage[k], node) + Stored(storage, keys \ {k}, node)

\* How many nodes the frontier holds
RECURSIVE CountNodes(_, _)
CountNodes(storage, keys) ==
    IF keys = {} THEN 0
    ELSE LET k == CHOOSE j \in keys : TRUE
         IN Len(storage[k]) + CountNodes(storage, keys \ {k})

FrontierSize == CountNodes(partial_paths, DOMAIN partial_paths)

\* The first steps of the nodes of the frontier
FrontierStarts == {p.path[1] : p \in FrontierNodes}

\* test_feed_pair_locality (main.rs): the total cost the cache model reports
\* when the pairs are replayed in order from an empty recency list
RECURSIVE replay(_, _, _, _, _)
replay(model, pairs, i, ents, total_cost) ==
    IF i > Len(pairs) THEN total_cost
    ELSE LET acc == access_pair(model, ents, pairs[i])
         IN replay(model, pairs, i + 1, acc.entries, total_cost + acc.cost)

test_feed_pair_locality(model, pairs) == replay(model, pairs, 1, <<>>, 0)

\* ... and the recency list that replay leaves
RECURSIVE replay_entries(_, _, _, _)
replay_entries(model, pairs, i, ents) ==
    IF i > Len(pairs) THEN ents
    ELSE replay_entries(model, pairs, i + 1,
                        access_pair(model, ents, pairs[i]).entries)

\* Cost standing for "there is no complete traversal"
NoTraversal == Unconstrained + 1

\* Cheapest way to complete a traversal of the domain from `path`, whose
\* accesses left the recency list `ents` and cost `cost`, with every step
\* within the radius: all of them are tried, nothing is pruned
RECURSIVE cheapest_completion(_, _, _, _, _, _)
cheapest_completion(model, n, r, path, ents, cost) ==
    IF Len(path) = path_length(n) THEN cost
    ELSE LET cands == {q \in Domain(n) \ Elements(path) :
                          WithinRadius(path[Len(path)], q, r)}
         IN IF cands = {} THEN NoTraversal
            ELSE MinOf({cheapest_completion(
                            model, n, r, Append(path, q),
                            access_pair(model, ents, q).entries,
                            cost + access_pair(model, ents, q).cost) :
                        q \in cands})

\* The least cost, as the cache model reports it, of a complete traversal
\* of the domain with every step within the radius, from any start
OptimalCost(model, n, r) ==
    MinOf({cheapest_completion(model, n, r, <<start>>,
                               access_pair(model, <<>>, start).entries,
                               access_pair(model, <<>>, start).cost) :
           start \in Domain(n)})

\* ... and from one given start
OptimalCostFrom(model, n, r, start) ==
    cheapest_completion(model, n, r, <<start>>,
                        access_pair(model, <<>>, start).entries,
                        access_pair(model, <<>>, start).cost)

\* The point-symmetric counterpart of a point of the domain
Counterpart(n, q) == <<n - 1 - q[2], n - 1 - q[1]>>

\* The least cost_so_far a complete path can have as the search accounts
\* it, over the seeded starting points
SearchedCost(debug, model, n, r) ==
    MinOf({LET p == PartialPath_new(debug, model, start)
           IN cheapest_completion(model, n, r, p.path, p.cache_entries,
                                  p.cost_so_far) :
           start \in Elements(seed_points(n, 0))})

\* The partial paths that `node` and its extensions are: every step to a
\* point of the domain within the radius that the path does not hold yet,
\* short of a complete path, with the cost and recency list the search gives
RECURSIVE PartialNodes(_, _, _, _)
PartialNodes(model, n, r, node) ==
    IF Len(node.path) + 1 >= path_length(n) THEN {node}
    ELSE {node} \cup
         UNION {PartialNodes(model, n, r,
                    commit_next_step(node, q,
                        evaluate_next_step(node, model, q).cost,
                        evaluate_next_step(node, model, q).entries)) :
                q \in {q \in Domain(n) \ Elements(node.path) :
                          WithinRadius(last_step(node), q, r)}}

\* ... from every seeded starting point
SeededPartialNodes(debug, model, n, r) ==
    UNION {PartialNodes(model, n, r, PartialPath_new(debug, model, start)) :
           start \in Elements(seed_points(n, 0))}

(***************************************************************************)
(* Properties of search_best_path                                          *)
(***************************************************************************)
\* C1: a returned path has length num_feeds*(num_feeds+1)/2 and contains
\* every pair (x, y) with 0 <= x <= y < num_feeds exactly once.
C1_ReturnedPathCoversDomain ==
    result.state = "some" =>
        /\ ValidInputs
        /\ Len(result.path) = (num_feeds * (num_feeds + 1)) \div 2
        /\ \A q \in Domain(num_feeds) :
                Cardinality({i \in 1..Len(result.path) : result.path[i] = q}) = 1

C1_Witness ==
    result.state = "some" /\ num_feeds = 3 /\ max_radius = 1

\* C2: consecutive steps of a returned path differ by at most max_radius in
\* each coordinate and every step after the first is in the domain.
C2_ReturnedStepsWithinRadius ==
    result.state = "some" =>
        \A i \in 1..(Len(result.path) - 1) :
            LET a == result.path[i]
                b == result.path[i + 1]
            IN /\ Abs(a[1] - b[1]) <= max_radius
               /\ Abs(a[2] - b[2]) <= max_radius
               /\ b[1] <= b[2]
               /\ b[2] < num_feeds

\* a returned path for which the radius forbids some steps of the domain
C2_Witness ==
    /\ result.state = "some"
    /\ num_feeds = 3
    /\ max_radius = 1
    /\ Len(result.path) = 6

\* C3: a returned cost is the least cost of all complete traversals of the
\* domain within the step radius, from any starting point, whenever that
\* least cost is strictly less than the bound the caller supplied.
C3_ReturnedCostIsOptimal ==
    (result.state = "some"
     /\ OptimalCost(cache_model, num_feeds, max_radius) < initial_bound)
        => result.cost = OptimalCost(cache_model, num_feeds, max_radius)

\* C4: with an unconstrained bound, whether a result is returned and the
\* cost returned are the same whatever the rng drew: they are functions of
\* the inputs alone.
C4_CostIndependentOfTiebreaks ==
    (pc = "done" /\ initial_bound = Unconstrained) =>
        LET cost == SearchedCost(debug_assertions, cache_model, num_feeds,
                                 max_radius)
        IN IF cost < NoTraversal
           THEN result.state = "some" /\ result.cost = cost
           ELSE result = None

\* a search that had to choose between paths of different costs
C4_Witness ==
    /\ pc = "done"
    /\ initial_bound = Unconstrained
    /\ result.state = "some"
    /\ result.cost > 0

\* C5: a result is returned only with a cost strictly less than the bound
\* supplied; when no complete traversal within the radius is strictly
\* cheaper than the bound, the search returns None and does not abort.
C5_StrictlyBetterOrNone ==
    /\ result.state = "some" => result.cost < initial_bound
    /\ ValidInputs => pc # "aborted"
    /\ (pc = "done"
        /\ OptimalCost(cache_model, num_feeds, max_radius) >= initial_bound)
          => result = None

\* C12: when a precondition is violated (num_feeds <= 1, entry_size = 0,
\* max_radius = 0 or a cost to beat <= 0) the search aborts at entry: no
\* cache model is built, nothing is seeded or popped, no neighbor table is
\* built and nothing is ever returned.
C12_AbortsAtEntry ==
    ~ValidInputs =>
        /\ pc \in {"entry", "aborted"}
        /\ pc = "entry" => ENABLED Enter
        /\ cache_model = NoModel
        /\ partial_paths = EmptyStorage
        /\ partial_path = NoPath
        /\ neighbors = <<>>
        /\ best_path = <<>>
        /\ result = Pending

\* an abort for a cost to beat that is not positive, all else being valid
C12_Witness ==
    /\ pc = "aborted"
    /\ num_feeds > 1 /\ entry_size > 0 /\ max_radius >= 1
    /\ initial_bound <= 0
    /\ cache_model = NoModel

\* C13: when the starting points are about to be seeded, every point of
\* the domain and its point-symmetric counterpart (n-1-y, n-1-x) have the
\* same least cost over the complete traversals within the radius that
\* start there, so the seeded starting points alone reach the least cost of
\* all traversals.
C13_CounterpartsCostTheSame ==
    pc = "seed" =>
        /\ \A q \in Domain(num_feeds) :
              OptimalCostFrom(cache_model, num_feeds, max_radius, q)
                = OptimalCostFrom(cache_model, num_feeds, max_radius,
                                  Counterpart(num_feeds, q))
        /\ OptimalCost(cache_model, num_feeds, max_radius)
              = MinOf({OptimalCostFrom(cache_model, num_feeds, max_radius, q) :
                       q \in Elements(seed_points(num_feeds, 0))})

\* C14: once the seeding loops are done the frontier holds one node of
\* length 1 per starting point and no starting point twice; of every point
\* of the domain and its point-symmetric counterpart exactly one is a
\* starting point (the point itself when it is its own counterpart).
C14_OneSeedPerSymmetryClass ==
    pc = "neighbors" =>
        /\ \A p \in FrontierNodes : Len(p.path) = 1
        /\ FrontierSize = Cardinality(FrontierStarts)
        /\ \A q \in Domain(num_feeds) :
              IF Counterpart(num_feeds, q) = q
              THEN q \in FrontierStarts
              ELSE (q \in FrontierStarts)
                     # (Counterpart(num_feeds, q) \in FrontierStarts)

\* the six starting points of four feeds
C14_Witness ==
    /\ pc = "neighbors"
    /\ num_feeds = 4
    /\ FrontierSize = 6
    /\ FrontierStarts = {<<0, 0>>, <<0, 1>>, <<0, 2>>, <<0, 3>>, <<1, 1>>, <<1, 2>>}

\* C16: when the search returns, whatever the rng drew, every valid partial
\* path from a seeded starting point whose accumulated cost is strictly less
\* than the final best cost (the cost to beat at the call when there is no
\* result) has been popped and expanded.
C16_CheaperPathsAllExpanded ==
    pc = "done" =>
        \A node \in SeededPartialNodes(debug_assertions, cache_model,
                                       num_feeds, max_radius) :
            node.cost_so_far < best_cost => node.path \in expanded

\* a search that ended with a result of cost 1, having dropped paths
C16_Witness ==
    /\ pc = "done"
    /\ num_feeds = 3
    /\ result.state = "some"
    /\ result.cost = 1
    /\ \E node \in SeededPartialNodes(debug_assertions, cache_model,
                                       num_feeds, max_radius) :
            node.path \notin expanded
    /\ \E path \in expanded : Len(path) = 5

\* The nodes of the frontier that extend the latest popped path by a step
Children ==
    {p \in FrontierNodes :
        SubSeq(p.path, 1, Len(p.path) - 1) = partial_path.path}

\* C17: in each iteration of the loop (non-exhaustive mode) the popped node
\* is expanded only if its cost_so_far is strictly less than the current
\* bound, a candidate is pushed or recorded as best only if its cost is
\* strictly less than the bound at that moment, and a popped node whose cost
\* meets or exceeds the bound is dropped with nothing pushed or recorded.
C17_PrunesAtTheBound ==
    [][(pc = "loop" /\ pc' = "loop" /\ BRUTE_FORCE_DEBUG_LEVEL < 2) =>
          /\ \A p \in FrontierNodes' : p \in FrontierNodes \/ p \in Children'
          /\ \A p \in Children' :
                /\ p \notin FrontierNodes
                /\ partial_path'.cost_so_far < best_cost
                /\ p.cost_so_far < best_cost
          /\ best_path' # best_path =>
                /\ partial_path'.cost_so_far < best_cost
                /\ best_cost' < best_cost
          /\ partial_path'.cost_so_far >= best_cost =>
                /\ FrontierNodes' = FrontierNodes \ {partial_path'}
                /\ best_path' = best_path
                /\ best_cost' = best_cost]_vars

\* a popped node that was dropped for meeting the bound
C17_Witness ==
    /\ pc = "loop"
    /\ num_feeds = 3
    /\ partial_path # NoPath
    /\ Len(partial_path.path) < path_length(num_feeds) - 1
    /\ partial_path.cost_so_far >= best_cost
    /\ best_path # <<>>

\* The cost the search accumulates along a path: the start as
\* PartialPath::new leaves it, then evaluate_next_step for each further step
AccumulatedCost(debug, model, path) ==
    replay(model, path, 2,
           PartialPath_new(debug, model, path[1]).cache_entries, 0)

\* best_path and best_cost go together: nothing recorded and the bound of
\* the call, or a complete path and the cost accumulated along it
BoundMatchesPath ==
    \/ best_path = <<>> /\ best_cost = initial_bound
    \/ /\ Len(best_path) = path_length(num_feeds)
       /\ best_cost = AccumulatedCost(debug_assertions, cache_model, best_path)

\* C18: during the search best_cost never increases; it changes only when
\* a complete path of strictly lower cost is found, and then best_path and
\* best_cost change together; at every step either no path is recorded and
\* best_cost is the bound of the call, or the recorded path is complete and
\* best_cost is its cost.
C18_BoundTightensWithPath ==
    /\ []BoundMatchesPath
    /\ [][/\ best_cost' <= best_cost
          /\ (best_cost' # best_cost) = (best_path' # best_path)
          /\ best_path' # best_path =>
                /\ best_cost' < best_cost
                /\ Len(best_path') = path_length(num_feeds)]_vars

\* a bound tightened to the cost 1 of a recorded path
C18_Witness ==
    /\ pc = "loop"
    /\ best_path # <<>>
    /\ best_cost = 1
    /\ best_cost < initial_bound
    /\ BoundMatchesPath

\* C19: the cost returned is the total cost of replaying the returned path,
\* each pair first feed then second, through simulate_access from an empty
\* recency list; every node of the frontier has the cost_so_far and the
\* recency list that replaying its own path gives.
C19_CostIsReplayCost ==
    /\ \A p \in FrontierNodes :
          /\ p.cost_so_far = test_feed_pair_locality(cache_model, p.path)
          /\ p.cache_entries = replay_entries(cache_model, p.path, 1, <<>>)
    /\ result.state = "some" =>
          result.cost = test_feed_pair_locality(cache_model, result.path)

\* C20: every node of the frontier has a path that is not empty, shorter
\* than num_feeds*(num_feeds+1)/2, starts at a seeded point, holds no pair
\* twice and only pairs of the domain, and whose consecutive steps are
\* within max_radius of each other in both coordinates.
C20_FrontierPathsAreValid ==
    \A p \in FrontierNodes :
        /\ Len(p.path) >= 1
        /\ Len(p.path) < (num_feeds * (num_feeds + 1)) \div 2
        /\ p.path[1] \in Elements(seed_points(num_feeds, 0))
        /\ Cardinality(Elements(p.path)) = Len(p.path)
        /\ \A i \in 1..Len(p.path) :
              p.path[i][1] <= p.path[i][2] /\ p.path[i][2] < num_feeds
        /\ \A i \in 1..(Len(p.path) - 1) :
              WithinRadius(p.path[i], p.path[i + 1], max_radius)

\* a node one step short of a complete path, every step within radius 1
C20_Witness ==
    /\ num_feeds = 3
    /\ max_radius = 1
    /\ \E p \in FrontierNodes : Len(p.path) = 5

\* C21: evaluate_next_step, commit_next_step and finish_path leave the node
\* they are called on as it was: over an iteration of the loop the popped
\* node is the node the frontier held, every child pushed is that node's
\* path plus the child's own step, with the cost and recency list of those
\* two accesses made on the parent's recency list, whatever siblings were
\* evaluated before it, and a recorded best path is the parent's path plus
\* one step.
C21_ChildrenDependOnParentOnly ==
    [][(pc = "loop" /\ pc' = "loop") =>
          /\ partial_path' \in FrontierNodes
          /\ \A child \in Children' :
                LET step == last_step(child)
                    acc == access_pair(cache_model, partial_path'.cache_entries,
                                       step)
                IN /\ child.path = Append(partial_path'.path, step)
                   /\ child.cache_entries = acc.entries
                   /\ child.cost_so_far = partial_path'.cost_so_far + acc.cost
          /\ best_path' # best_path =>
                SubSeq(best_path', 1, Len(best_path') - 1) = partial_path'.path]_vars

\* a node expanded into three children with different recency lists
C21_Witness ==
    /\ pc = "loop"
    /\ Cardinality(Children) >= 3
    /\ Cardinality({child.cache_entries : child \in Children}) >= 3
    /\ partial_path.cache_entries # <<>>

\* C6: for valid inputs the search ends by returning, with an empty
\* frontier, and nothing else stops it; no node of the frontier has the
\* length of a complete path.
C6_SearchReturns ==
    ValidInputs =>
        /\ ENABLED Next \/ (pc = "done" /\ DOMAIN partial_paths = {})
        /\ \A p \in FrontierNodes : Len(p.path) < path_length(num_feeds)

\* C10: evaluate_next_step never returns less than the cost so far of the
\* path it is called on, for any path of the search and any candidate step;
\* the paths pushed by an expansion cost at least what the expanded path
\* cost.
C10_CostNeverDecreases ==
    pc \in {"neighbors", "loop", "done"} =>
        /\ \A p \in FrontierNodes \cup ({partial_path} \ {NoPath}) :
             \A q \in Domain(num_feeds) :
                evaluate_next_step(p, cache_model, q).cost >= p.cost_so_far
        /\ \A p \in FrontierNodes :
             SubSeq(p.path, 1, Len(p.path) - 1) = partial_path.path
                => p.cost_so_far >= partial_path.cost_so_far

\* a path that already has a cost was expanded into a costlier one
C10_Witness ==
    /\ partial_path.cost_so_far > 0
    /\ \E p \in FrontierNodes :
         /\ SubSeq(p.path, 1, Len(p.path) - 1) = partial_path.path
         /\ p.cost_so_far > partial_path.cost_so_far

(***************************************************************************)
(* Properties of the neighbor table                                        *)
(***************************************************************************)
\* The neighbors the specification gives the point (x, y) for radius r
LegalNeighbors(n, r, x, y) ==
    {q \in (0..(n - 1)) \X (0..(n - 1)) :
        /\ Max(0, x - r) <= q[1] /\ q[1] <= Min(n - 1, x + r)
        /\ Max(q[1], y - r) <= q[2] /\ q[2] <= Min(n - 1, y + r)}

C22_NeighborAssertsHold ==
    /\ (ValidInputs /\ pc = "neighbors") =>
          \A curr_x \in 0..(num_feeds - 1) : \A curr_y \in curr_x..(num_feeds - 1) :
              neighbor_asserts_at(num_feeds, max_radius, curr_x, curr_y)
    /\ ~(pc = "aborted" /\ partial_paths # EmptyStorage)

(***************************************************************************)
(* Properties of the frontier                                              *)
(***************************************************************************)
\* The priority of the specification: round(1.3 * path_length - cost_so_far)
\* as a signed integer, halves rounded away from zero
SignedPriority(p) ==
    LET tenths == 13 * Len(p.path) - 10 * p.cost_so_far
    IN IF tenths >= 0 THEN (tenths + 5) \div 10 ELSE -((5 - tenths) \div 10)

\* C15: while the frontier is not empty the loop goes on with a popped node
\* whose priority round(1.3 * path_length - cost_so_far) is at least that of
\* every node the frontier held, negative priorities included; pop returns
\* none, which ends the loop, only when the frontier is empty.
C15_PopsHighestPriority ==
    [][pc = "loop" =>
          IF FrontierNodes # {}
          THEN /\ pc' = "loop"
               /\ partial_path' \in FrontierNodes
               /\ \A q \in FrontierNodes :
                     SignedPriority(partial_path') >= SignedPriority(q)
          ELSE pc' = "done"]_vars

(***************************************************************************)
(* Properties of the scenario                                              *)
(***************************************************************************)
\* C7: in the scenario the search returns a path of length 10 that covers
\* the domain, at a cost that is at most what the cache model reports for
\* the naive order.
C7_ScenarioBeatsNaive ==
    /\ pc # "aborted"
    /\ pc = "done" =>
        /\ result.state = "some"
        /\ Len(result.path) = 10
        /\ Elements(result.path) = Domain(num_feeds)
        /\ result.cost <= test_feed_pair_locality(cache_model, Naive(num_feeds))

(***************************************************************************)
(* Properties of the cache model                                           *)
(***************************************************************************)
Accessed == history # <<>>
LastEntry == history[Len(history)]
Before == SubSeq(history, 1, Len(history) - 1)

\* The age of the latest entry when it was accessed: how many distinct
\* other entries were accessed since its previous access
LastOccurrence == CHOOSE i \in 1..Len(Before) :
                     /\ Before[i] = LastEntry
                     /\ \A j \in (i + 1)..Len(Before) : Before[j] # LastEntry
Age == Cardinality({Before[j] : j \in (LastOccurrence + 1)..Len(Before)})

\* C8: with l1_entries >= 1, an access costs 0 when the entry was never
\* accessed before and when it was the entry of the preceding access.
C8_FirstAndRepeatedAccessFree ==
    (Accessed /\ cache_model.l1_entries >= 1) =>
        /\ LastEntry \notin Elements(Before) => last_cost = 0
        /\ (Before # <<>> /\ Before[Len(Before)] = LastEntry) => last_cost = 0

\* an entry accessed twice in a row after another one
C8_Witness ==
    /\ Len(history) >= 3
    /\ cache_model.l1_entries = 1
    /\ Before[Len(Before)] = LastEntry
    /\ history[1] # LastEntry
    /\ last_cost = 0

\* A sequence without the occurrences of e, the rest in the same order
RECURSIVE Without(_, _)
Without(seq, e) ==
    IF seq = <<>> THEN <<>>
    ELSE IF seq[1] = e THEN Without(Tail(seq), e)
    ELSE <<seq[1]>> \o Without(Tail(seq), e)

\* C23: after any sequence of push and pop operations on the frontier, no
\* bucket is empty and every node is stored in the bucket whose key is its
\* own priority (as priorize computes it); every pushed node is either
\* still stored or was returned by pop, exactly once in all; a pop removes
\* the bucket of the node it returns exactly when that node was the
\* bucket's last one, and no other step removes a bucket.
C23_BucketsHoldTheirNodes ==
    /\ [](pc = "frontier" =>
            /\ \A k \in DOMAIN partial_paths :
                  /\ partial_paths[k] # <<>>
                  /\ \A i \in 1..Len(partial_paths[k]) :
                        priorize(partial_paths[k][i]) = k
            /\ \A node \in Elements(pushed_nodes) \cup Elements(popped_nodes)
                            \cup FrontierNodes :
                  Occurrences(pushed_nodes, node) =
                      Occurrences(popped_nodes, node)
                          + Stored(partial_paths, DOMAIN partial_paths, node))
    /\ [][pc = "frontier" =>
            IF popped_nodes' # popped_nodes
            THEN LET k == priorize(partial_path')
                 IN /\ k = highest_priority(partial_paths)
                    /\ partial_path' \in Elements(partial_paths[k])
                    /\ popped_nodes' = Append(popped_nodes, partial_path')
                    /\ DOMAIN partial_paths' =
                          IF Len(partial_paths[k]) = 1
                          THEN DOMAIN partial_paths \ {k}
                          ELSE DOMAIN partial_paths
            ELSE DOMAIN partial_paths \subseteq DOMAIN partial_paths']_vars

\* C23's case: three nodes were pushed, two of them into the same bucket,
\* all three were popped, in another order, and the frontier is empty again
C23_Witness ==
    /\ pc = "frontier"
    /\ Len(pushed_nodes) = MaxPushes
    /\ Len(popped_nodes) = MaxPushes
    /\ popped_nodes # pushed_nodes
    /\ partial_paths = EmptyStorage
    /\ \E i, j \in 1..MaxPushes :
          /\ pushed_nodes[i] # pushed_nodes[j]
          /\ priorize(pushed_nodes[i]) = priorize(pushed_nodes[j])

\* C24: after any accesses from an empty recency list, the list holds each
\* entry accessed so far exactly once (no duplicate, its length is the
\* number of distinct entries accessed, it never shrinks), the entry
\* accessed last is at its tail, and the access left the other entries in
\* the order they were in.
C24_RecencyListIsMoveToBack ==
    /\ Cardinality(Elements(entries)) = Len(entries)
    /\ Elements(entries) = Elements(history)
    /\ Len(entries) = Cardinality(Elements(history))
    /\ Len(entries) >= Len(prev_entries)
    /\ Accessed =>
          /\ entries[Len(entries)] = LastEntry
          /\ SubSeq(entries, 1, Len(entries) - 1) = Without(prev_entries, LastEntry)

\* the oldest of three entries accessed again and moved to the tail
C24_Witness ==
    /\ Len(prev_entries) = 3
    /\ LastEntry = prev_entries[1]
    /\ entries = <<prev_entries[2], prev_entries[3], prev_entries[1]>>
    /\ Len(history) > 4

\* C9: the cost of accessing an entry that was accessed before depends on
\* its age alone: 0 below l1_entries, 1 below l2_entries, 5 below
\* l3_entries and 30 from there on.
C9_CostByAge ==
    (Accessed /\ LastEntry \in Elements(Before)) =>
        last_cost = IF Age < cache_model.l1_entries THEN 0
                    ELSE IF Age < cache_model.l2_entries THEN 1
                    ELSE IF Age < cache_model.l3_entries THEN 5
                    ELSE 30

\* an access of age 2 charged at the L3 rate, after repeated accesses
C9_Witness ==
    /\ Accessed
    /\ LastEntry \in Elements(Before)
    /\ Age = 2
    /\ Len(Before) - LastOccurrence > 2
    /\ last_cost = 5

====
